---------------------------- MODULE Spec2Model ----------------------------
(***************************************************************************)
(* Chat UI controller of static/app.js: the submit handler and its remote  *)
(* exchange, the message list, the in-memory history, the notification     *)
(* stack, the clear action and the navigation switcher.                    *)
(*                                                                         *)
(* Text is a sequence of one-character strings, so that trimming, HTML     *)
(* escaping and formatting are computed character by character as the      *)
(* code's regular expressions do.  Every JavaScript task (an event         *)
(* handler up to its first await, the continuation of an await, a timer    *)
(* callback) is one atomic action: the page is single-threaded.            *)
(***************************************************************************)
EXTENDS Naturals, Sequences, FiniteSets

(* Bounds of the model: they cap what the user may pile up, never what a   *)
(* request in flight does when it settles.                                 *)
MaxMessages == 3
MaxHistory == 2
MaxToasts == 1

(* ------------------------------ text ---------------------------------- *)

FALLBACK_ERROR_TEXT ==
    <<"A", "n", " ", "e", "r", "r", "o", "r", " ", "o", "c", "c", "u", "r", "r", "e", "d", " ", "w", "h", "i", "l", "e", " ", "g", "e", "t", "t", "i", "n", "g", " ", "t", "h", "e", " ", "a", "n", "s", "w", "e", "r", ".">>
FALLBACK_ERROR_TOAST ==
    <<"E", "r", "r", "o", "r">>
CONNECT_ERROR_TEXT ==
    <<"F", "a", "i", "l", "e", "d", " ", "t", "o", " ", "c", "o", "n", "n", "e", "c", "t", " ", "t", "o", " ", "t", "h", "e", " ", "s", "e", "r", "v", "e", "r", ".", " ", "P", "l", "e", "a", "s", "e", " ", "m", "a", "k", "e", " ", "s", "u", "r", "e", " ", "t", "h", "e", " ", "b", "a", "c", "k", "e", "n", "d", " ", "i", "s", " ", "r", "u", "n", "n", "i", "n", "g", ".">>
CONNECT_ERROR_TOAST ==
    <<"C", "o", "n", "n", "e", "c", "t", "i", "o", "n", " ", "e", "r", "r", "o", "r">>
SUCCESS_TOAST ==
    <<"M", "e", "s", "s", "a", "g", "e", " ", "s", "e", "n", "t", " ", "s", "u", "c", "c", "e", "s", "s", "f", "u", "l", "l", "y">>
CLEARED_TOAST ==
    <<"C", "h", "a", "t", " ", "c", "l", "e", "a", "r", "e", "d">>
CHAT_VIEW_TOAST ==
    <<"C", "h", "a", "t", " ", "v", "i", "e", "w", " ", "o", "p", "e", "n", "e", "d">>
NO_HISTORY_TOAST ==
    <<"N", "o", " ", "c", "h", "a", "t", " ", "h", "i", "s", "t", "o", "r", "y">>
HISTORY_COUNT_SUFFIX ==
    <<" ", "m", "e", "s", "s", "a", "g", "e", "s", " ", "i", "n", " ", "h", "i", "s", "t", "o", "r", "y">>
SETTINGS_TOAST ==
    <<"S", "e", "t", "t", "i", "n", "g", "s", " ", "(", "n", "o", "t", " ", "i", "m", "p", "l", "e", "m", "e", "n", "t", "e", "d", " ", "y", "e", "t", ")">>
WELCOME_TOAST ==
    <<"W", "e", "l", "c", "o", "m", "e", " ", "t", "o", " ", "A", "I", " ", "Q", "&", "A", " ", "A", "s", "s", "i", "s", "t", "a", "n", "t">>
ANCHOR_OPEN ==
    <<"<", "a", " ", "h", "r", "e", "f", "=", "\"">>
ANCHOR_MID ==
    <<"\"", " ", "t", "a", "r", "g", "e", "t", "=", "\"", "_", "b", "l", "a", "n", "k", "\"", " ", "r", "e", "l", "=", "\"", "n", "o", "o", "p", "e", "n", "e", "r", "\"", ">">>
ANCHOR_CLOSE ==
    <<"<", "/", "a", ">">>
BR ==
    <<"<", "b", "r", ">">>
BAD_QUESTION ==
    <<"b", "a", "d", " ", "q", "u", "e", "s", "t", "i", "o", "n">>
TYPING_MARKUP ==
    <<"<", "d", "i", "v", " ", "c", "l", "a", "s", "s", "=", "\"", "t", "y", "p", "i", "n", "g", "-", "i", "n", "d", "i", "c", "a", "t", "o", "r", "\"", ">", "<", "d", "i", "v", " ", "c", "l", "a", "s", "s", "=", "\"", "t", "y", "p", "i", "n", "g", "-", "d", "o", "t", "\"", ">", "<", "/", "d", "i", "v", ">", "<", "d", "i", "v", " ", "c", "l", "a", "s", "s", "=", "\"", "t", "y", "p", "i", "n", "g", "-", "d", "o", "t", "\"", ">", "<", "/", "d", "i", "v", ">", "<", "d", "i", "v", " ", "c", "l", "a", "s", "s", "=", "\"", "t", "y", "p", "i", "n", "g", "-", "d", "o", "t", "\"", ">", "<", "/", "d", "i", "v", ">", "<", "/", "d", "i", "v", ">">>

(* The texts the user types into the question field. *)
Inputs ==
    { <<>>, <<" ">>, <<" ", "a", "<", "b", "\n">> }

(* String.prototype.trim's white space, within the model's alphabet. *)
IsSpace(c) == c \in {" ", "\n", "\t"}

trimStart[s \in Seq(STRING)] ==
    IF s # <<>> /\ IsSpace(Head(s)) THEN trimStart[Tail(s)] ELSE s

trimEnd[s \in Seq(STRING)] ==
    IF s # <<>> /\ IsSpace(s[Len(s)]) THEN trimEnd[SubSeq(s, 1, Len(s) - 1)] ELSE s

(* A handler that forgets to trim. *)
trim_Identity(s) == s

trim(s) == trimEnd[trimStart[s]]

(* A map without the entry of the apostrophe. *)
escapeChar_NoApostrophe(c) ==
    CASE c = "&"  -> <<"&", "a", "m", "p", ";">>
      [] c = "<"  -> <<"&", "l", "t", ";">>
      [] c = ">"  -> <<"&", "g", "t", ";">>
      [] c = "\"" -> <<"&", "q", "u", "o", "t", ";">>
      [] OTHER    -> <<c>>

(* The map of escapeHtml: one character to its entity. *)
escapeChar(c) ==
    CASE c = "&"  -> <<"&", "a", "m", "p", ";">>
      [] c = "<"  -> <<"&", "l", "t", ";">>
      [] c = ">"  -> <<"&", "g", "t", ";">>
      [] c = "\"" -> <<"&", "q", "u", "o", "t", ";">>
      [] c = "'"  -> <<"&", "#", "0", "3", "9", ";">>
      [] OTHER    -> <<c>>

(* text.replace(/[&<>"']/g, (m) => map[m]): every character by the map,     *)
(* the halves of the text one after the other.                             *)
escapeSeq[text \in Seq(STRING)] ==
    IF Len(text) = 0 THEN <<>>
    ELSE IF Len(text) = 1 THEN escapeChar(text[1])
    ELSE LET half == Len(text) \div 2
         IN escapeSeq[SubSeq(text, 1, half)]
              \o escapeSeq[SubSeq(text, half + 1, Len(text))]

escapeHtml(text) == escapeSeq[text]

IsPrefix(p, s) == Len(p) <= Len(s) /\ SubSeq(s, 1, Len(p)) = p

(* Length of the longest run of non-white-space characters s starts with. *)
nonSpaceRun[s \in Seq(STRING)] ==
    IF s = <<>> \/ IsSpace(Head(s)) THEN 0 ELSE 1 + nonSpaceRun[Tail(s)]

(* A pattern without the optional s. *)
urlMatchLen_HttpOnly(s) ==
    LET scheme == IF IsPrefix(<<"h", "t", "t", "p", ":", "/", "/">>, s) THEN 7 ELSE 0
        run == nonSpaceRun[SubSeq(s, scheme + 1, Len(s))]
    IN IF scheme > 0 /\ run > 0 THEN scheme + run ELSE 0

(* Length of the match of /https?:\/\/[^\s]+/ at the start of s, 0 if none. *)
urlMatchLen(s) ==
    LET scheme == IF IsPrefix(<<"h", "t", "t", "p", "s", ":", "/", "/">>, s) THEN 8
                  ELSE IF IsPrefix(<<"h", "t", "t", "p", ":", "/", "/">>, s) THEN 7
                  ELSE 0
        run == nonSpaceRun[SubSeq(s, scheme + 1, Len(s))]
    IN IF scheme > 0 /\ run > 0 THEN scheme + run ELSE 0

(* formatted.replace(/(https?:\/\/[^\s]+)/g, '<a href="$1" ...>$1</a>') *)
linkUrls[s \in Seq(STRING)] ==
    IF s = <<>> THEN <<>>
    ELSE LET n == urlMatchLen(s)
             url == SubSeq(s, 1, n)
         IN IF n > 0
            THEN ANCHOR_OPEN \o url \o ANCHOR_MID \o url \o ANCHOR_CLOSE
                     \o linkUrls[SubSeq(s, n + 1, Len(s))]
            ELSE <<Head(s)>> \o linkUrls[Tail(s)]

(* formatted.replace(/\n/g, "<br>") *)
breakLines[s \in Seq(STRING)] ==
    IF Len(s) = 0 THEN <<>>
    ELSE IF Len(s) = 1 THEN (IF s[1] = "\n" THEN BR ELSE s)
    ELSE LET half == Len(s) \div 2
         IN breakLines[SubSeq(s, 1, half)] \o breakLines[SubSeq(s, half + 1, Len(s))]

formatText(text) == breakLines[linkUrls[escapeHtml(text)]]

(* Decimal digits of n, as the template literal of showHistory prints it. *)
Digit(d) == <<"0", "1", "2", "3", "4", "5", "6", "7", "8", "9">>[d + 1]

numberToString[n \in Nat] ==
    IF n < 10 THEN <<Digit(n)>> ELSE numberToString[n \div 10] \o <<Digit(n % 10)>>

(* --------------------------- JSON values ------------------------------ *)

(* A value of a parsed JSON body's field: a string carries its text in     *)
(* str, a number its value in num; undefined is an absent field.           *)
JsUndefined == [type |-> "undefined", str |-> <<>>, num |-> 0]
JsString(s) == [type |-> "string", str |-> s, num |-> 0]
JsNumber(n) == [type |-> "number", str |-> <<>>, num |-> n]

(* ToBoolean, as the || operator applies it. *)
Truthy(v) ==
    CASE v.type = "string" -> v.str # <<>>
      [] v.type = "number" -> v.num # 0
      [] OTHER -> FALSE

(* The server's text is never used. *)
JsOr_Right(a, b) == b

JsOr(a, b) == IF Truthy(a) THEN a ELSE b

(* Anything is taken for a string. *)
escapeHtmlThrows_Never(v) == FALSE

(* text.replace exists on strings only: escapeHtml of anything else throws *)
(* a TypeError.                                                            *)
escapeHtmlThrows(v) == v.type # "string"

(* What response.json() settles with: a rejection (the body is no JSON),   *)
(* the value null, or an object with its answer and error fields.          *)
Unparsable == [kind |-> "unparsable", answer |-> JsUndefined, error |-> JsUndefined]
JsonNull == [kind |-> "null", answer |-> JsUndefined, error |-> JsUndefined]
JsonObject(a, e) == [kind |-> "object", answer |-> a, error |-> e]

Answers == { <<"h", "i">>, <<"1", "<", "2">> }
Errors == { BAD_QUESTION }

Bodies ==
    {Unparsable, JsonNull}
      \cup {JsonObject(JsString(a), JsUndefined) : a \in Answers}
      \cup {JsonObject(JsUndefined, JsString(e)) : e \in Errors \cup {<<>>}}
      \cup {JsonObject(JsUndefined, JsUndefined),
            JsonObject(JsNumber(42), JsUndefined),
            JsonObject(JsUndefined, JsNumber(42)),
            JsonObject(JsUndefined, JsNumber(0))}


(* ------------------------------ state --------------------------------- *)

VARIABLES
    questionInput,        \* questionInput.value
    isLoading,            \* the loading flag
    submitBtn,            \* the submit control as setLoadingState leaves it
    conversationHistory,  \* the turns, in insertion order
    chatMessages,         \* the children of #chatMessages, in document order
    welcomeScreen,        \* welcomeScreen.style.display
    toastContainer,       \* the children of #toastContainer, in document order
    calls,                \* the invocations of handleSubmit suspended at an await
    activeNav             \* the navigation items carrying the class "active"

vars ==
    <<questionInput, isLoading, submitBtn, conversationHistory, chatMessages,
      welcomeScreen, toastContainer, calls, activeNav>>

(* The page as one value: a handler is a function from the page it finds   *)
(* to the page it leaves.                                                  *)
Page ==
    [questionInput |-> questionInput, isLoading |-> isLoading,
     submitBtn |-> submitBtn, conversationHistory |-> conversationHistory,
     chatMessages |-> chatMessages, welcomeScreen |-> welcomeScreen,
     toastContainer |-> toastContainer, calls |-> calls, activeNav |-> activeNav]

(* The page becomes the value q of p. *)
Becomes(p) ==
    \E q \in {p} :
       /\ questionInput' = q.questionInput
       /\ isLoading' = q.isLoading
       /\ submitBtn' = q.submitBtn
       /\ conversationHistory' = q.conversationHistory
       /\ chatMessages' = q.chatMessages
       /\ welcomeScreen' = q.welcomeScreen
       /\ toastContainer' = q.toastContainer
       /\ calls' = q.calls
       /\ activeNav' = q.activeNav

NavItems == {"chat", "history", "settings"}

RemoveAt(s, i) == SubSeq(s, 1, i - 1) \o SubSeq(s, i + 1, Len(s))

(* ---------------------------- DOM helpers ----------------------------- *)

Message(className, id, label, content) ==
    [className |-> className, id |-> id, label |-> label, content |-> content]

addUserMessage(msgs, text) ==
    Append(msgs, Message("message message-user", "", "You", escapeHtml(text)))

addErrorMessage(msgs, text) ==
    Append(msgs, Message("message message-error", "", "Error", escapeHtml(text)))

(* The answer is not rendered. *)
addAIMessage_Nothing(msgs, text) == msgs

(* The answer is rendered with the error template. *)
addAIMessage_AsError(msgs, text) == addErrorMessage(msgs, text)

addAIMessage(msgs, text) ==
    Append(msgs, Message("message message-ai", "", "AI Assistant", formatText(text)))

(* No placeholder is shown. *)
addTypingIndicator_Nothing(msgs) == msgs

addTypingIndicator(msgs) ==
    Append(msgs, Message("message message-ai", "typingIndicator", "AI Assistant",
                         TYPING_MARKUP))

(* The placeholder is never taken out. *)
removeTypingIndicator_Noop(msgs) == msgs

(* document.getElementById returns the first element with the id. *)
removeTypingIndicator(msgs) ==
    LET hits == {i \in 1..Len(msgs) : msgs[i].id = "typingIndicator"}
    IN IF hits = {} THEN msgs
       ELSE RemoveAt(msgs, CHOOSE i \in hits : \A j \in hits : i <= j)

setLoadingState(loading) ==
    [disabled |-> loading, spinnerHidden |-> ~loading, iconHidden |-> loading,
     text |-> IF loading THEN "Sending..." ELSE "Send"]

toastIcon(type) ==
    CASE type = "success" -> "check"
      [] type = "error"   -> "cross"
      [] type = "info"    -> "info"
      [] OTHER            -> "dot"

(* showToast appends the banner; its two timers are ToastTimeout and       *)
(* ToastRemove below.                                                      *)
showToast(toasts, message, type) ==
    Append(toasts, [type |-> type, icon |-> toastIcon(type),
                    content |-> escapeHtml(message), animation |-> ""])

(* ----------------------------- handleSubmit --------------------------- *)

(* The guard without the loading flag. *)
SubmitRejected_IgnoresLoading(question, loading) == question = <<>>

(* The early return of handleSubmit. *)
SubmitRejected(question, loading) == question = <<>> \/ loading

(* A submit event: the handler up to its first await. *)
handleSubmit(p) ==
    LET question == trim(p.questionInput)
    IN IF SubmitRejected(question, p.isLoading) THEN p
       ELSE [p EXCEPT
               !.welcomeScreen = "none",
               !.chatMessages = addTypingIndicator(addUserMessage(@, question)),
               !.questionInput = <<>>,
               !.isLoading = TRUE,
               !.submitBtn = setLoadingState(TRUE),
               !.calls = Append(@, [pc |-> "fetch", question |-> question,
                                    ok |-> FALSE])]

(* A catch block that only notifies. *)
CatchBlock_NoMessage(p) ==
    [p EXCEPT
       !.chatMessages = removeTypingIndicator(@),
       !.toastContainer = showToast(@, CONNECT_ERROR_TOAST, "error")]

(* The catch block: what is rendered after an exception in the try block.  *)
CatchBlock(p) ==
    [p EXCEPT
       !.chatMessages = addErrorMessage(removeTypingIndicator(@), CONNECT_ERROR_TEXT),
       !.toastContainer = showToast(@, CONNECT_ERROR_TOAST, "error")]

(* No finally block: the flag is left as it was. *)
FinallyBlock_KeepsLoading(p, i) == [p EXCEPT !.calls = RemoveAt(@, i)]

(* The finally block, and the invocation i is over. *)
FinallyBlock(p, i) ==
    [p EXCEPT !.isLoading = FALSE,
              !.submitBtn = setLoadingState(FALSE),
              !.calls = RemoveAt(@, i)]

(* The try block from the point response.json() has resolved with data:    *)
(* threw tells whether it ended in an exception, page what it had done by  *)
(* then.                                                                   *)
TryBlock(p, question, ok, data) ==
    LET typed == [p EXCEPT !.chatMessages = removeTypingIndicator(@)]
        errText == JsOr(data.error, JsString(FALLBACK_ERROR_TEXT))
        errToast == JsOr(data.error, JsString(FALLBACK_ERROR_TOAST))
    IN IF data.kind = "null" THEN [threw |-> TRUE, page |-> typed]
       ELSE IF ok
       THEN IF escapeHtmlThrows(data.answer) THEN [threw |-> TRUE, page |-> typed]
            ELSE [threw |-> FALSE,
                  page |-> [typed EXCEPT
                     !.chatMessages = addAIMessage(@, data.answer.str),
                     !.conversationHistory =
                         Append(@, [question |-> question, answer |-> data.answer.str]),
                     !.toastContainer = showToast(@, SUCCESS_TOAST, "success")]]
       ELSE IF escapeHtmlThrows(errText) THEN [threw |-> TRUE, page |-> typed]
            ELSE [threw |-> FALSE,
                  page |-> [typed EXCEPT
                     !.chatMessages = addErrorMessage(@, errText.str),
                     !.toastContainer = showToast(@, errToast.str, "error")]]

(* fetch resolves with a response whose status class is ok: the handler    *)
(* calls response.json() and awaits again.                                 *)
fetchResolved(p, i, ok) ==
    [p EXCEPT !.calls[i].pc = "json", !.calls[i].ok = ok]

(* The rejected request is issued again. *)
fetchRejected_Retries(p, i) == p

(* fetch rejects: catch, finally. *)
fetchRejected(p, i) == FinallyBlock(CatchBlock(p), i)

(* The turn is built from the question field as it is at settlement. *)
jsonSettled_ReadsField(p, i, body) ==
    IF body.kind = "unparsable" THEN FinallyBlock(CatchBlock(p), i)
    ELSE LET t == TryBlock(p, trim(p.questionInput), p.calls[i].ok, body)
         IN FinallyBlock(IF t.threw THEN CatchBlock(t.page) ELSE t.page, i)

(* response.json() settles, by rejecting (the body is no JSON) or with the *)
(* parsed data: the rest of try, catch if it threw, finally.               *)
jsonSettled(p, i, body) ==
    IF body.kind = "unparsable" THEN FinallyBlock(CatchBlock(p), i)
    ELSE LET t == TryBlock(p, p.calls[i].question, p.calls[i].ok, body)
         IN FinallyBlock(IF t.threw THEN CatchBlock(t.page) ELSE t.page, i)

(* --------------------------- other handlers --------------------------- *)

(* The turns survive the clear. *)
clearChat_KeepsHistory(p, confirmed) ==
    IF confirmed
    THEN [p EXCEPT !.chatMessages = <<>>,
                   !.welcomeScreen = "flex",
                   !.toastContainer = showToast(@, CLEARED_TOAST, "info")]
    ELSE p

(* The answer to the confirmation is not read. *)
clearChat_NoConfirm(p, confirmed) ==
    [p EXCEPT !.chatMessages = <<>>,
              !.welcomeScreen = "flex",
              !.conversationHistory = <<>>,
              !.toastContainer = showToast(@, CLEARED_TOAST, "info")]

clearChat(p, confirmed) ==
    IF confirmed
    THEN [p EXCEPT !.chatMessages = <<>>,
                   !.welcomeScreen = "flex",
                   !.conversationHistory = <<>>,
                   !.toastContainer = showToast(@, CLEARED_TOAST, "info")]
    ELSE p

showChat_ClearsMessages(p) ==
    [p EXCEPT !.chatMessages = <<>>,
              !.toastContainer = showToast(@, CHAT_VIEW_TOAST, "info")]

showChat(p) ==
    [p EXCEPT !.toastContainer = showToast(@, CHAT_VIEW_TOAST, "info")]

showHistory(p) ==
    IF Len(p.conversationHistory) = 0
    THEN [p EXCEPT !.toastContainer = showToast(@, NO_HISTORY_TOAST, "info")]
    ELSE [p EXCEPT !.toastContainer =
             showToast(@, numberToString[Len(p.conversationHistory)]
                              \o HISTORY_COUNT_SUFFIX, "info")]

showSettings(p) ==
    [p EXCEPT !.toastContainer = showToast(@, SETTINGS_TOAST, "info")]

handleNavigation_KeepsActive(p, view) ==
    LET q == [p EXCEPT !.activeNav = @ \cup {view}]
    IN CASE view = "chat" -> showChat(q)
         [] view = "history" -> showHistory(q)
         [] view = "settings" -> showSettings(q)
         [] OTHER -> q

handleNavigation(p, view) ==
    LET q == [p EXCEPT !.activeNav = {view}]
    IN CASE view = "chat" -> showChat(q)
         [] view = "history" -> showHistory(q)
         [] view = "settings" -> showSettings(q)
         [] OTHER -> q

(* The 3000 ms timer of banner i: it starts to slide out. *)
toastTimeout(p, i) ==
    [p EXCEPT !.toastContainer[i].animation = "slideOutRight"]

toastRemove_RemovesAll(p, i) ==
    [p EXCEPT !.toastContainer = <<>>]

(* The 300 ms timer the first one set: the banner leaves the DOM. *)
toastRemove(p, i) ==
    [p EXCEPT !.toastContainer = RemoveAt(@, i)]

(* ------------------------------ actions ------------------------------- *)

(* Room for what an accepted submission and its settlement will add. *)
SubmitRoom ==
    /\ Len(chatMessages) + 2 <= MaxMessages
    /\ Len(conversationHistory) + Len(calls) < MaxHistory
    /\ Len(toastContainer) < MaxToasts

(* Room for one more banner. *)
ToastRoom == Len(toastContainer) < MaxToasts

(* The user edits the question field. *)
TypeInput ==
    \E v \in Inputs :
       /\ v # questionInput
       /\ Becomes([Page EXCEPT !.questionInput = v])

SubmitEvent ==
    /\ handleSubmit(Page) # Page => SubmitRoom
    /\ Becomes(handleSubmit(Page))

FetchResolved ==
    \E i \in 1..Len(calls), ok \in BOOLEAN :
       /\ calls[i].pc = "fetch"
       /\ Becomes(fetchResolved(Page, i, ok))

FetchRejected ==
    \E i \in 1..Len(calls) :
       /\ calls[i].pc = "fetch"
       /\ Becomes(fetchRejected(Page, i))

JsonSettled ==
    \E i \in 1..Len(calls), body \in Bodies :
       /\ calls[i].pc = "json"
       /\ Becomes(jsonSettled(Page, i, body))

ClearClicked ==
    \E confirmed \in BOOLEAN :
       /\ confirmed => ToastRoom
       /\ Becomes(clearChat(Page, confirmed))

NavClicked ==
    \E view \in NavItems :
       /\ ToastRoom
       /\ Becomes(handleNavigation(Page, view))

(* Timers of equal delay fire in the order they were set: no older banner  *)
(* is still waiting for its first timer, and the banner at the head is the *)
(* first to leave.                                                         *)
ToastTimeout ==
    \E i \in 1..Len(toastContainer) :
       /\ toastContainer[i].animation = ""
       /\ \A j \in 1..(i - 1) : toastContainer[j].animation # ""
       /\ Becomes(toastTimeout(Page, i))

ToastRemove ==
    \E i \in 1..Len(toastContainer) :
       /\ toastContainer[i].animation = "slideOutRight"
       /\ i = 1
       /\ Becomes(toastRemove(Page, i))

(* ------------------------------ the system ---------------------------- *)

(* The page after the script has run: initializeApp has shown its banner. *)
Init ==
    /\ questionInput = <<>>
    /\ isLoading = FALSE
    /\ submitBtn = setLoadingState(FALSE)
    /\ conversationHistory = <<>>
    /\ chatMessages = <<>>
    /\ welcomeScreen = ""
    /\ toastContainer = showToast(<<>>, WELCOME_TOAST, "success")
    /\ calls = <<>>
    /\ activeNav = {"chat"}

Next ==
    \/ TypeInput
    \/ SubmitEvent
    \/ FetchResolved
    \/ FetchRejected
    \/ JsonSettled
    \/ ClearClicked
    \/ NavClicked
    \/ ToastTimeout
    \/ ToastRemove

Spec == Init /\ [][Next]_vars

(* The transport settles every request in the end: a pending fetch         *)
(* resolves or rejects, and a pending body read resolves or rejects.       *)
LiveSpec ==
    /\ Spec
    /\ WF_vars(FetchResolved \/ FetchRejected)
    /\ WF_vars(JsonSettled)

(* A timer that was set fires: a banner on show starts to leave, and a     *)
(* banner that is leaving is removed.                                      *)
ToastSpec ==
    /\ Spec
    /\ WF_vars(ToastTimeout)
    /\ WF_vars(ToastRemove)

(* ------------------------ the renderers alone ------------------------- *)

(* The fragments the texts under test are built from, and the number of    *)
(* fragments in a text.                                                    *)
MaxParts == 3

Pieces ==
    { <<"h", "t", "t", "p", ":", "/", "/">>, <<"h", "t", "t", "p", "s", ":", "/", "/">>,
      <<"x">>, <<" ">>, <<"\n">>, <<"&">>, <<"<">>, <<">">>, <<"\"">>, <<"'">> }

TextsOf[n \in Nat] ==
    IF n = 0 THEN { <<>> }
    ELSE TextsOf[n - 1] \cup { t \o piece : t \in TextsOf[n - 1], piece \in Pieces }

SCRIPT_TEXT ==
    <<"<", "s", "c", "r", "i", "p", "t", ">">>
URL_TEXT ==
    <<"s", "e", "e", " ", "h", "t", "t", "p", ":", "/", "/", "e", "x", "a", "m", "p", "l", "e", ".", "c", "o", "m", " ", "n", "o", "w">>

Texts == TextsOf[MaxParts] \cup { SCRIPT_TEXT, URL_TEXT }

(* A page with nothing rendered and any text at hand. *)
FormatInit ==
    /\ questionInput \in Texts
    /\ isLoading = FALSE
    /\ submitBtn = setLoadingState(FALSE)
    /\ conversationHistory = <<>>
    /\ chatMessages = <<>>
    /\ welcomeScreen = "none"
    /\ toastContainer = <<>>
    /\ calls = <<>>
    /\ activeNav = {"chat"}

NothingRendered == chatMessages = <<>> /\ toastContainer = <<>>

RenderUserMessage ==
    /\ NothingRendered
    /\ Becomes([Page EXCEPT !.chatMessages = addUserMessage(@, questionInput)])

RenderErrorMessage ==
    /\ NothingRendered
    /\ Becomes([Page EXCEPT !.chatMessages = addErrorMessage(@, questionInput)])

RenderAIMessage ==
    /\ NothingRendered
    /\ Becomes([Page EXCEPT !.chatMessages = addAIMessage(@, questionInput)])

RenderToast ==
    /\ NothingRendered
    /\ \E type \in {"success", "error", "info"} :
          Becomes([Page EXCEPT !.toastContainer = showToast(@, questionInput, type)])

FormatNext ==
    \/ RenderUserMessage
    \/ RenderErrorMessage
    \/ RenderAIMessage
    \/ RenderToast

FormatSpec == FormatInit /\ [][FormatNext]_vars

(* ------------------------------ claims -------------------------------- *)

IsUser(m) == m.className = "message message-user"
IsAnswer(m) == m.className = "message message-ai" /\ m.id = ""
IsTyping(m) == m.id = "typingIndicator"
IsError(m) == m.className = "message message-error"

Count(msgs, P(_)) == Cardinality({k \in 1..Len(msgs) : P(msgs[k])})

Last(s) == s[Len(s)]

Range(s) == {s[k] : k \in 1..Len(s)}

(* s is t with exactly the element x appended. *)
Appended(s, t, x) == s = Append(t, x)

(* The page with v typed into the question field. *)
Typed(v) == [Page EXCEPT !.questionInput = v]

(* The banner showToast makes for a message of a type. *)
Toast(message, type) == Last(showToast(<<>>, message, type))

(* The text is empty or holds white space only. *)
IsBlank(v) == \A k \in 1..Len(v) : IsSpace(v[k])

(* C1: at most one request is in flight in every reachable state, and a    *)
(* submit event that arrives while isLoading is true leaves the whole page *)
(* as it was, whatever the question field holds: nothing is rendered, no   *)
(* invocation is added (none is issued, none is queued), and the field,    *)
(* the history and the flag are unchanged.                                 *)
C1_SubmitWhileLoadingIsNoOp ==
    /\ Len(calls) <= 1
    /\ isLoading => \A v \in Inputs : handleSubmit(Typed(v)) = Typed(v)

(* A request is in flight and the field holds a question. *)
C1_Witness ==
    /\ isLoading
    /\ Len(calls) = 1
    /\ ~IsBlank(questionInput)

(* C2: a submit event whose input is empty or only white space leaves the  *)
(* whole page as it was: message list, calls, loading flag, welcome        *)
(* placeholder and history.                                                *)
C2_BlankSubmitIsNoOp ==
    \A v \in Inputs :
       IsBlank(v) => handleSubmit(Typed(v)) = Typed(v)

(* Idle, a white-space input in the field, and a conversation a render     *)
(* would have changed.                                                     *)
C2_Witness ==
    /\ ~isLoading
    /\ questionInput = <<" ">>
    /\ chatMessages # <<>>
    /\ conversationHistory # <<>>

(* C3: with no request in flight, a submit of an input that is non-empty   *)
(* after trimming appends exactly one user message, then the typing        *)
(* indicator, hides the welcome placeholder, clears the field, sets the    *)
(* loading flag and leaves the request pending (not settled).              *)
C3_AcceptedSubmit ==
    calls = <<>> =>
       \A v \in Inputs :
          ~IsBlank(v) =>
             \A r \in {handleSubmit(Typed(v))}, n \in {Len(chatMessages)} :
                /\ Len(r.chatMessages) = n + 2
                /\ SubSeq(r.chatMessages, 1, n) = chatMessages
                /\ IsUser(r.chatMessages[n + 1])
                /\ r.chatMessages[n + 1].content = escapeHtml(trim(v))
                /\ Count(r.chatMessages, IsUser) = Count(chatMessages, IsUser) + 1
                /\ IsTyping(r.chatMessages[n + 2])
                /\ r.welcomeScreen = "none"
                /\ r.questionInput = <<>>
                /\ r.isLoading
                /\ r.submitBtn.disabled /\ ~r.submitBtn.spinnerHidden
                /\ Len(r.calls) = 1 /\ r.calls[1].pc = "fetch"
                /\ r.calls[1].question = trim(v)
                /\ r.conversationHistory = conversationHistory

(* The page right after an accepted submission. *)
C3_Witness ==
    /\ Len(calls) = 1 /\ calls[1].pc = "fetch"
    /\ isLoading
    /\ questionInput = <<>>
    /\ welcomeScreen = "none"
    /\ Len(chatMessages) >= 2
    /\ IsTyping(Last(chatMessages))
    /\ IsUser(chatMessages[Len(chatMessages) - 1])
    /\ chatMessages[Len(chatMessages) - 1].content = <<"a", "&", "l", "t", ";", "b">>

(* The outcome of a settlement r of the page: it rendered the message m    *)
(* and nothing else, and showed the banner t and no other.                 *)
Rendered(r, m, t) ==
    /\ Appended(r.chatMessages, removeTypingIndicator(chatMessages), m)
    /\ Appended(r.toastContainer, toastContainer, t)

(* C4: when response.json() resolves for an OK response with an object     *)
(* whose answer is a string, exactly one turn (this question, this answer) *)
(* is appended to the history, exactly one AI message is rendered, exactly *)
(* one success notification is shown and no error message is rendered.     *)
C4_SuccessPath ==
    \A i \in 1..Len(calls), b \in Bodies :
       (calls[i].pc = "json" /\ calls[i].ok
          /\ b.kind = "object" /\ b.answer.type = "string") =>
          \A r \in {jsonSettled(Page, i, b)} :
             /\ Appended(r.conversationHistory, conversationHistory,
                         [question |-> calls[i].question, answer |-> b.answer.str])
             /\ Count(r.chatMessages, IsAnswer) = Count(chatMessages, IsAnswer) + 1
             /\ Count(r.chatMessages, IsError) = Count(chatMessages, IsError)
             /\ Rendered(r, Message("message message-ai", "", "AI Assistant",
                                    formatText(b.answer.str)),
                         Toast(SUCCESS_TOAST, "success"))

(* An answer has been rendered, its turn recorded and the success banner   *)
(* is up.                                                                  *)
C4_Witness ==
    /\ calls = <<>> /\ ~isLoading
    /\ chatMessages # <<>> /\ IsAnswer(Last(chatMessages))
    /\ Last(chatMessages).content = <<"h", "i">>
    /\ conversationHistory # <<>>
    /\ Last(conversationHistory) = [question |-> <<"a", "<", "b">>, answer |-> <<"h", "i">>]
    /\ toastContainer # <<>> /\ Last(toastContainer) = Toast(SUCCESS_TOAST, "success")

(* A body as the interface describes a failure: an object whose error is   *)
(* absent or a string.                                                     *)
WellFormedFailure(b) ==
    b.kind = "object" /\ b.error.type \in {"undefined", "string"}

(* The text of the error message for a failure body: the server's, or the  *)
(* generic one when it supplied none (an empty one counts as none).        *)
FailureText(b) ==
    IF b.error.type = "string" /\ b.error.str # <<>> THEN b.error.str
    ELSE FALLBACK_ERROR_TEXT

(* C5: when response.json() resolves for a response that is not OK with a  *)
(* well-formed body, exactly one error message is rendered, with the       *)
(* server's error text when it supplied one and the generic fallback       *)
(* otherwise; an error notification is shown, no turn is appended and no   *)
(* AI message is rendered.                                                 *)
C5_ApplicationFailure ==
    \A i \in 1..Len(calls), b \in Bodies :
       (calls[i].pc = "json" /\ ~calls[i].ok /\ WellFormedFailure(b)) =>
          \A r \in {jsonSettled(Page, i, b)} :
             /\ Count(r.chatMessages, IsError) = Count(chatMessages, IsError) + 1
             /\ IsError(Last(r.chatMessages))
             /\ Last(r.chatMessages).content = escapeHtml(FailureText(b))
             /\ Len(r.chatMessages) = Len(removeTypingIndicator(chatMessages)) + 1
             /\ Len(r.toastContainer) = Len(toastContainer) + 1
             /\ Last(r.toastContainer).type = "error"
             /\ r.conversationHistory = conversationHistory
             /\ Count(r.chatMessages, IsAnswer) = Count(chatMessages, IsAnswer)

(* The server's "bad question" has been rendered as an error message and   *)
(* notified, and the history is still empty.                               *)
C5_Witness ==
    /\ calls = <<>> /\ ~isLoading
    /\ chatMessages # <<>> /\ IsError(Last(chatMessages))
    /\ Last(chatMessages).content = BAD_QUESTION
    /\ toastContainer # <<>> /\ Last(toastContainer) = Toast(BAD_QUESTION, "error")
    /\ conversationHistory = <<>>

(* The connectivity error message and its banner. *)
ConnectErrorMessage ==
    Message("message message-error", "", "Error", escapeHtml(CONNECT_ERROR_TEXT))

ConnectErrorToast == Toast(CONNECT_ERROR_TOAST, "error")

(* What a transport failure leaves: one connectivity error message, one    *)
(* error banner, the history as it was.                                    *)
TransportOutcome(r) ==
    /\ Rendered(r, ConnectErrorMessage, ConnectErrorToast)
    /\ Count(r.chatMessages, IsError) = Count(chatMessages, IsError) + 1
    /\ r.conversationHistory = conversationHistory

(* C6: when fetch rejects, or response.json() rejects because the body     *)
(* cannot be parsed, exactly one connectivity error message is rendered    *)
(* and an error notification shown; the history is unchanged.              *)
C6_TransportFailure ==
    \A i \in 1..Len(calls) :
       /\ calls[i].pc = "fetch" =>
             \A r \in {fetchRejected(Page, i)} : TransportOutcome(r)
       /\ calls[i].pc = "json" =>
             \A r \in {jsonSettled(Page, i, Unparsable)} : TransportOutcome(r)

(* The connectivity error has been rendered and notified after a turn had  *)
(* been recorded, and the turn is still there.                             *)
C6_Witness ==
    /\ calls = <<>> /\ ~isLoading
    /\ chatMessages # <<>> /\ IsError(Last(chatMessages))
    /\ Last(chatMessages).content = CONNECT_ERROR_TEXT
    /\ toastContainer # <<>> /\ Last(toastContainer) = ConnectErrorToast
    /\ Len(conversationHistory) = 1

(* The controller accepts a submission: the flag is clear, the control is  *)
(* enabled, nothing is in flight, and a submit of a question is taken.     *)
Accepting ==
    /\ ~isLoading /\ ~submitBtn.disabled /\ calls = <<>>
    /\ \A v \in Inputs : ~IsBlank(v) => handleSubmit(Typed(v)).isLoading

(* C7: given that the transport settles every request, a state with the    *)
(* loading flag set is always followed by one with the flag clear in which *)
(* a new submit is accepted, whatever the outcome path (success,           *)
(* application failure, transport failure, an exception while rendering).  *)
C7_ReturnsToIdle == isLoading ~> Accepting

(* Idle again after a settlement that rendered its outcome. *)
C7_Witness ==
    /\ Accepting
    /\ chatMessages # <<>>
    /\ ~IsUser(Last(chatMessages))

(* C8: in every reachable state with no request in flight the message list *)
(* holds no typing indicator, and whichever way a pending request settles  *)
(* the list it leaves holds none.                                          *)
C8_NoTypingIndicatorWhenIdle ==
    /\ calls = <<>> => Count(chatMessages, IsTyping) = 0
    /\ \A i \in 1..Len(calls) :
          /\ calls[i].pc = "fetch" =>
                Count(fetchRejected(Page, i).chatMessages, IsTyping) = 0
          /\ calls[i].pc = "json" =>
                \A b \in Bodies :
                   Count(jsonSettled(Page, i, b).chatMessages, IsTyping) = 0

(* A request has settled and its user message is still in the list. *)
C8_Witness ==
    /\ calls = <<>>
    /\ Len(chatMessages) >= 2
    /\ IsUser(chatMessages[Len(chatMessages) - 1])
    /\ Count(chatMessages, IsTyping) = 0

(* C9: from every reachable state, a request in flight or not, a confirmed *)
(* clear leaves the message list empty, the history empty and the welcome  *)
(* placeholder displayed, and shows one informational notification.        *)
C9_ConfirmedClear ==
    \A r \in {clearChat(Page, TRUE)} :
       /\ r.chatMessages = <<>>
       /\ r.conversationHistory = <<>>
       /\ r.welcomeScreen = "flex"
       /\ Appended(r.toastContainer, toastContainer, Toast(CLEARED_TOAST, "info"))

(* The chat was cleared while a request was in flight. *)
C9_Witness ==
    /\ calls # <<>> /\ isLoading
    /\ chatMessages = <<>>
    /\ conversationHistory = <<>>
    /\ welcomeScreen = "flex"
    /\ toastContainer # <<>> /\ Last(toastContainer) = Toast(CLEARED_TOAST, "info")

(* C10: a clear the user declines leaves the whole page as it was: message *)
(* list, history, welcome placeholder, loading flag and notifications.     *)
C10_DeclinedClear == clearChat(Page, FALSE) = Page

(* A conversation with a recorded turn and a banner, which a clear would   *)
(* have wiped.                                                             *)
C10_Witness ==
    /\ chatMessages # <<>>
    /\ conversationHistory # <<>>
    /\ welcomeScreen = "none"
    /\ toastContainer # <<>>


(* C11: exactly one navigation item is marked active at a time: whichever
   item is clicked, in whatever state, afterwards that item is active and
   no other item is. *)
C11_OneActiveNavItem ==
    /\ Cardinality(activeNav) = 1
    /\ \A view \in NavItems :
          \A r \in {handleNavigation(Page, view)} :
             /\ view \in r.activeNav
             /\ \A other \in NavItems \ {view} : other \notin r.activeNav

C11_Witness ==
    /\ activeNav = {"settings"}
    /\ toastContainer # <<>>
    /\ Last(toastContainer) = Toast(SETTINGS_TOAST, "info")

(* C12: a navigation click keeps the chat state: the history, the message
   list, the loading flag, the submit control and the request in flight
   are what they were; the history view adds one notification, the
   empty-history one when the history is empty and otherwise one that
   counts the turns, and touches nothing else. *)
C12_NavigationKeepsChatState ==
    \A view \in NavItems :
       \A r \in {handleNavigation(Page, view)} :
          /\ r.conversationHistory = conversationHistory
          /\ r.chatMessages = chatMessages
          /\ r.isLoading = isLoading
          /\ r.submitBtn = submitBtn
          /\ r.calls = calls
          /\ r.questionInput = questionInput
          /\ r.welcomeScreen = welcomeScreen
          /\ view = "history" =>
                r.toastContainer = Append(toastContainer,
                    IF Len(conversationHistory) = 0
                    THEN Toast(NO_HISTORY_TOAST, "info")
                    ELSE Toast(numberToString[Len(conversationHistory)]
                                  \o HISTORY_COUNT_SUFFIX, "info"))

C12_Witness ==
    /\ activeNav = {"history"}
    /\ calls # <<>>
    /\ isLoading
    /\ Len(conversationHistory) = 1
    /\ chatMessages # <<>>
    /\ IsTyping(Last(chatMessages))
    /\ toastContainer # <<>>
    /\ Last(toastContainer) = Toast(<<"1">> \o HISTORY_COUNT_SUFFIX, "info")


(* The two timers of banner i touch banner i alone: the first changes its
   animation, the second takes it out, and every other banner stays in the
   stack, in the same order and in the same phase of its own timers. *)
C13_Independent ==
    \A i \in 1..Len(toastContainer) :
       /\ \A r \in {toastTimeout(Page, i)} :
             /\ Len(r.toastContainer) = Len(toastContainer)
             /\ r.toastContainer[i].animation = "slideOutRight"
             /\ r.toastContainer[i].content = toastContainer[i].content
             /\ \A j \in 1..Len(toastContainer) :
                   j # i => r.toastContainer[j] = toastContainer[j]
             /\ [r EXCEPT !.toastContainer = toastContainer] = Page
       /\ \A r \in {toastRemove(Page, i)} :
             /\ Len(r.toastContainer) = Len(toastContainer) - 1
             /\ \A j \in 1..Len(toastContainer) :
                   /\ j < i => r.toastContainer[j] = toastContainer[j]
                   /\ j > i => r.toastContainer[j - 1] = toastContainer[j]
             /\ [r EXCEPT !.toastContainer = toastContainer] = Page

(* C13: every notification shown is removed in the end by its own timers,
   whatever else is in the stack: the banner at the head of the stack is
   removed again and again unless the stack stays empty for good, so every
   banner reaches the head and leaves; several banners can be present at
   once, and a timer of one neither removes nor changes another. *)
C13_ToastsLeave ==
    /\ []C13_Independent
    /\ (<>[](toastContainer = <<>>) \/ []<><<ToastRemove>>_vars)

C13_Witness ==
    /\ Len(toastContainer) = 2
    /\ toastContainer[1].animation = "slideOutRight"
    /\ toastContainer[2].animation = ""
    /\ toastContainer[1].content # toastContainer[2].content


(* What a browser makes of markup: the entities it decodes, where a tag
   ends, the text a fragment displays, and the anchors it holds. *)
Entities ==
    { [entity |-> escapeChar(c), char |-> c] : c \in {"&", "<", ">", "\"", "'"} }

Least(S) == CHOOSE k \in S : \A j \in S : k <= j

decodeText[s \in Seq(STRING)] ==
    IF s = <<>> THEN <<>>
    ELSE LET found == {x \in Entities : Len(x.entity) > 1 /\ IsPrefix(x.entity, s)}
         IN IF found # {}
            THEN LET x == CHOOSE x \in found : TRUE
                 IN <<x.char>> \o decodeText[SubSeq(s, Len(x.entity) + 1, Len(s))]
            ELSE <<Head(s)>> \o decodeText[Tail(s)]

(* Index of the > that closes the tag s starts with: the first one outside
   a quoted attribute value. *)
tagEnd(s) ==
    LET quotesBefore(k) == Cardinality({j \in 1..(k - 1) : s[j] = "\""})
        closing == {k \in 1..Len(s) : s[k] = ">" /\ quotesBefore(k) % 2 = 0}
    IN IF closing = {} THEN Len(s) ELSE Least(closing)

textContent[s \in Seq(STRING)] ==
    IF s = <<>> THEN <<>>
    ELSE IF Head(s) = "<"
    THEN \* a tag shows nothing, a line break shows as a new line
         LET n == tagEnd(s)
         IN (IF SubSeq(s, 1, n) = BR THEN <<"\n">> ELSE <<>>)
               \o textContent[SubSeq(s, n + 1, Len(s))]
    ELSE LET found == {x \in Entities : Len(x.entity) > 1 /\ IsPrefix(x.entity, s)}
         IN IF found # {}
            THEN LET x == CHOOSE x \in found : TRUE
                 IN <<x.char>> \o textContent[SubSeq(s, Len(x.entity) + 1, Len(s))]
            ELSE <<Head(s)>> \o textContent[Tail(s)]

(* The anchors of a fragment, in document order: the value of href, the
   text shown, and whether the element is written as formatText's template
   writes it. *)
anchorsOf[s \in Seq(STRING)] ==
    IF s = <<>> THEN <<>>
    ELSE IF IsPrefix(<<"<", "a">>, s)
    THEN LET n == tagEnd(s)
             tag == SubSeq(s, 1, n)
             rest == SubSeq(s, n + 1, Len(s))
             closes == {k \in 1..Len(rest) :
                           IsPrefix(ANCHOR_CLOSE, SubSeq(rest, k, Len(rest)))}
             c == IF closes = {} THEN Len(rest) + 1 ELSE Least(closes)
             templated == /\ IsPrefix(ANCHOR_OPEN, tag)
                          /\ n >= Len(ANCHOR_OPEN) + Len(ANCHOR_MID)
                          /\ SubSeq(tag, n - Len(ANCHOR_MID) + 1, n) = ANCHOR_MID
                          /\ closes # {}
             href == SubSeq(tag, Len(ANCHOR_OPEN) + 1, n - Len(ANCHOR_MID))
         IN <<[href |-> decodeText[href],
               text |-> textContent[SubSeq(rest, 1, c - 1)],
               templated |-> templated]>>
               \o anchorsOf[SubSeq(rest, c + Len(ANCHOR_CLOSE), Len(rest))]
    ELSE anchorsOf[Tail(s)]

(* The fragment without the pieces of markup formatText writes itself:
   what is left is made of the characters of the text. *)
withoutTemplates[s \in Seq(STRING)] ==
    IF s = <<>> THEN <<>>
    ELSE LET found == {t \in {ANCHOR_OPEN, ANCHOR_MID, ANCHOR_CLOSE, BR} : IsPrefix(t, s)}
         IN IF found # {}
            THEN LET t == CHOOSE t \in found : TRUE
                 IN withoutTemplates[SubSeq(s, Len(t) + 1, Len(s))]
            ELSE <<Head(s)>> \o withoutTemplates[Tail(s)]

NoRawSpecial(s) == \A k \in 1..Len(s) : s[k] \notin {"<", ">", "\"", "'"}

(* C14: the text of a message or notification goes into the markup
   escaped: the markup of a user message, an error message or a
   notification holds no <, >, " or ' at all, the markup of an answer holds
   none outside the anchor and line-break tags formatText writes itself,
   and in each case the browser displays the text as it was given. *)
C14_TextIsEscaped ==
    /\ \A k \in 1..Len(chatMessages) :
          \A m \in {chatMessages[k]} :
             /\ textContent[m.content] = questionInput
             /\ IF IsAnswer(m)
                THEN NoRawSpecial(withoutTemplates[m.content])
                ELSE NoRawSpecial(m.content)
    /\ \A k \in 1..Len(toastContainer) :
          /\ NoRawSpecial(toastContainer[k].content)
          /\ textContent[toastContainer[k].content] = questionInput

C14_Witness ==
    /\ questionInput = SCRIPT_TEXT
    /\ Len(chatMessages) = 1
    /\ IsUser(chatMessages[1])
    /\ chatMessages[1].content
          = <<"&", "l", "t", ";", "s", "c", "r", "i", "p", "t", "&", "g", "t", ";">>

(* The URLs of a text, read off the text itself: in each run of characters
   between white space, the part from the first http:// or https:// that
   has at least one character after it to the end of the run. *)
urlOfWord(w) ==
    LET schemes == { <<"h", "t", "t", "p", ":", "/", "/">>,
                     <<"h", "t", "t", "p", "s", ":", "/", "/">> }
        starts == {k \in 1..Len(w) :
                      \E scheme \in schemes :
                         /\ IsPrefix(scheme, SubSeq(w, k, Len(w)))
                         /\ k + Len(scheme) <= Len(w)}
    IN IF starts = {} THEN <<>> ELSE <<SubSeq(w, Least(starts), Len(w))>>

bareUrls[s \in Seq(STRING)] ==
    IF s = <<>> THEN <<>>
    ELSE IF IsSpace(Head(s)) THEN bareUrls[Tail(s)]
    ELSE LET n == Least({k \in 1..Len(s) : k = Len(s) \/ IsSpace(s[k + 1])})
         IN urlOfWord(SubSeq(s, 1, n)) \o bareUrls[SubSeq(s, n + 1, Len(s))]

(* C15: the anchors of a rendered answer are the URLs of the text, one
   anchor for each URL and in the same order, each written by the template
   and with the URL, up to the first white space, as the value of its href
   and as the text it shows (both as the browser reads them, entities
   decoded); nothing else is in an anchor. *)
C15_UrlsAreLinked ==
    \A k \in 1..Len(chatMessages) :
       IsAnswer(chatMessages[k]) =>
          \A urls \in {bareUrls[questionInput]} :
             anchorsOf[chatMessages[k].content]
                = [j \in 1..Len(urls) |->
                      [href |-> urls[j], text |-> urls[j], templated |-> TRUE]]

C15_Witness ==
    /\ questionInput = URL_TEXT
    /\ Len(chatMessages) = 1
    /\ IsAnswer(chatMessages[1])
    /\ chatMessages[1].content
          = <<"s", "e", "e", " ">> \o ANCHOR_OPEN
               \o <<"h", "t", "t", "p", ":", "/", "/", "e", "x", "a", "m", "p", "l", "e", ".", "c", "o", "m">>
               \o ANCHOR_MID
               \o <<"h", "t", "t", "p", ":", "/", "/", "e", "x", "a", "m", "p", "l", "e", ".", "c", "o", "m">>
               \o ANCHOR_CLOSE \o <<" ", "n", "o", "w">>


(* C16: no failure is retried. A submission that is accepted issues one
   request and any other submission none; a request that fails, at the
   fetch or at the reading of the body, is over and leaves no request
   behind, with the page ready for the next submission; no other handler
   issues a request. So there is one request in flight while the page is
   loading and none otherwise. *)
C16_NoRetry ==
    /\ Len(calls) = (IF isLoading THEN 1 ELSE 0)
    /\ \A v \in Inputs :
          \A r \in {handleSubmit(Typed(v))} :
             IF IsBlank(v) \/ isLoading
             THEN r.calls = calls
             ELSE /\ Len(r.calls) = Len(calls) + 1
                  /\ SubSeq(r.calls, 1, Len(calls)) = calls
                  /\ Last(r.calls).pc = "fetch"
    /\ \A i \in 1..Len(calls) :
          /\ calls[i].pc = "fetch" =>
                /\ \A r \in {fetchRejected(Page, i)} :
                      /\ Len(r.calls) = Len(calls) - 1
                      /\ \A j \in 1..Len(r.calls) : r.calls[j] \in Range(calls)
                      /\ ~r.isLoading
                /\ \A ok \in BOOLEAN :
                      \A r \in {fetchResolved(Page, i, ok)} :
                         /\ Len(r.calls) = Len(calls)
                         /\ r.calls[i].pc = "json"
          /\ calls[i].pc = "json" =>
                \A body \in Bodies :
                   \A r \in {jsonSettled(Page, i, body)} :
                      /\ Len(r.calls) = Len(calls) - 1
                      /\ \A j \in 1..Len(r.calls) : r.calls[j] \in Range(calls)
                      /\ ~r.isLoading
    /\ \A confirmed \in BOOLEAN : clearChat(Page, confirmed).calls = calls
    /\ \A view \in NavItems : handleNavigation(Page, view).calls = calls
    /\ \A k \in 1..Len(toastContainer) :
          /\ toastTimeout(Page, k).calls = calls
          /\ toastRemove(Page, k).calls = calls

C16_Witness ==
    /\ calls = <<>>
    /\ ~isLoading
    /\ Len(chatMessages) = 2
    /\ IsUser(chatMessages[1])
    /\ IsError(chatMessages[2])
    /\ questionInput = <<" ", "a", "<", "b", "\n">>


(* A text with no white space at either end and at least one character. *)
IsTrimmed(q) == q # <<>> /\ ~IsSpace(q[1]) /\ ~IsSpace(q[Len(q)])

(* The question each pending request carries is a trimmed text. *)
C17_QuestionsTrimmed ==
    /\ \A i \in 1..Len(calls) : IsTrimmed(calls[i].question)
    /\ \A k \in 1..Len(conversationHistory) :
          IsTrimmed(conversationHistory[k].question)

(* A step keeps the history, or appends one turn to it when an OK response
   settles, the turn made of the question that request captured when it
   was submitted and of the answer rendered in the same step, or empties it
   together with the message list; and the question a request captures is
   the trimmed content of the field at the moment of the submission. *)
C17_HistoryStep ==
    /\ \/ conversationHistory' = conversationHistory
       \/ \E i \in 1..Len(calls), a \in Answers :
             /\ calls[i].pc = "json"
             /\ calls[i].ok
             /\ conversationHistory'
                   = Append(conversationHistory,
                            [question |-> calls[i].question, answer |-> a])
             /\ calls' = RemoveAt(calls, i)
             /\ chatMessages' # <<>>
             /\ IsAnswer(Last(chatMessages'))
             /\ Last(chatMessages').content = formatText(a)
       \/ /\ conversationHistory' = <<>>
          /\ chatMessages' = <<>>
          /\ welcomeScreen' = "flex"
          /\ toastContainer' = Append(toastContainer, Toast(CLEARED_TOAST, "info"))
    /\ Len(calls') > Len(calls) =>
          \A q \in {Last(calls').question} :
             \E k \in 1..(Len(questionInput) - Len(q) + 1) :
                /\ SubSeq(questionInput, k, k + Len(q) - 1) = q
                /\ \A j \in 1..(k - 1) : IsSpace(questionInput[j])
                /\ \A j \in (k + Len(q))..Len(questionInput) : IsSpace(questionInput[j])

(* C17: the history is a sequence in insertion order that changes in two
   ways only: a successful response appends one turn at its end, and a
   confirmed clear empties it. Each turn holds the question as it was
   trimmed when it was submitted, whatever the question field holds when
   the response settles, and the answer of the same request. *)
C17_HistoryAppendOnly ==
    /\ []C17_QuestionsTrimmed
    /\ [][C17_HistoryStep]_vars

C17_Witness ==
    /\ Len(conversationHistory) = 2
    /\ conversationHistory[1] = [question |-> <<"a", "<", "b">>, answer |-> <<"h", "i">>]
    /\ conversationHistory[2] = [question |-> <<"a", "<", "b">>, answer |-> <<"1", "<", "2">>]
    /\ questionInput = <<" ">>


(* C18: in every reachable state the user messages in the list are as many
   as the answers and the error messages together, plus one when a request
   is in flight, and every answer or error message comes right after the
   user message of its question. *)
C18_MessagesPaired ==
    /\ Count(chatMessages, IsUser)
          = Count(chatMessages, IsAnswer) + Count(chatMessages, IsError)
               + (IF calls # <<>> THEN 1 ELSE 0)
    /\ \A k \in 1..Len(chatMessages) :
          IsAnswer(chatMessages[k]) \/ IsError(chatMessages[k]) =>
             k > 1 /\ IsUser(chatMessages[k - 1])


(* C19: in every reachable state the history holds as many turns as the
   message list holds answers, the typing indicator not counted: a
   settlement renders an answer exactly when it appends a turn, and a
   confirmed clear empties both. *)
C19_TurnsMatchAnswers ==
    /\ Len(conversationHistory) = Count(chatMessages, IsAnswer)
    /\ \A i \in 1..Len(calls) :
          /\ calls[i].pc = "fetch" =>
                \A r \in {fetchRejected(Page, i)} :
                   /\ Len(r.conversationHistory) = Len(conversationHistory)
                   /\ Count(r.chatMessages, IsAnswer) = Count(chatMessages, IsAnswer)
          /\ calls[i].pc = "json" =>
                \A body \in Bodies :
                   \A r \in {jsonSettled(Page, i, body)} :
                      \/ /\ Len(r.conversationHistory) = Len(conversationHistory) + 1
                         /\ Count(r.chatMessages, IsAnswer)
                               = Count(chatMessages, IsAnswer) + 1
                      \/ /\ r.conversationHistory = conversationHistory
                         /\ Count(r.chatMessages, IsAnswer)
                               = Count(chatMessages, IsAnswer)
    /\ \A r \in {clearChat(Page, TRUE)} :
          /\ Len(r.conversationHistory) = 0
          /\ Count(r.chatMessages, IsAnswer) = 0

C19_Witness ==
    /\ Len(conversationHistory) = 1
    /\ Len(chatMessages) = 2
    /\ IsUser(chatMessages[1])
    /\ IsAnswer(chatMessages[2])
    /\ chatMessages[2].content = <<"1", "&", "l", "t", ";", "2">>
    /\ conversationHistory[1].answer = <<"1", "<", "2">>
    /\ toastContainer = <<>>

(* What every settlement does, whatever its path: the typing indicator
   goes, one message is added, an answer or an error message, and one
   banner is added. *)
OneOutcome(r) ==
    /\ Len(r.chatMessages) = Len(chatMessages) - Count(chatMessages, IsTyping) + 1
    /\ Count(r.chatMessages, IsTyping) = 0
    /\ Count(r.chatMessages, IsAnswer) + Count(r.chatMessages, IsError)
          = Count(chatMessages, IsAnswer) + Count(chatMessages, IsError) + 1
    /\ IsAnswer(Last(r.chatMessages)) # IsError(Last(r.chatMessages))
    /\ Len(r.toastContainer) = Len(toastContainer) + 1
    /\ SubSeq(r.toastContainer, 1, Len(toastContainer)) = toastContainer

(* The settlement ended on the connectivity error path. *)
ConnectivityPath(r) ==
    /\ Last(r.chatMessages) = ConnectErrorMessage
    /\ Last(r.toastContainer) = ConnectErrorToast

(* The settlement rendered the generic application error. *)
FallbackPath(r) ==
    /\ Last(r.chatMessages)
          = Message("message message-error", "", "Error", FALLBACK_ERROR_TEXT)
    /\ Last(r.toastContainer) = Toast(FALLBACK_ERROR_TOAST, "error")

NoStringAnswer(b) == b.kind # "object" \/ b.answer.type # "string"
NonStringError(b) == b.kind = "object" /\ b.error.type \notin {"string", "undefined"}

(* C20, as the claim states it: every settlement renders one outcome
   message and one notification, and an OK response without a string answer
   and a response that is not OK with an error field that is not a string
   both end on the connectivity error path. *)
C20_AsStated ==
    \A i \in 1..Len(calls) :
       /\ calls[i].pc = "fetch" => OneOutcome(fetchRejected(Page, i))
       /\ calls[i].pc = "json" =>
             \A body \in Bodies :
                \A r \in {jsonSettled(Page, i, body)} :
                   /\ OneOutcome(r)
                   /\ calls[i].ok /\ NoStringAnswer(body) => ConnectivityPath(r)
                   /\ ~calls[i].ok /\ NonStringError(body) => ConnectivityPath(r)

(* C20, amended: every settlement renders one outcome message, an answer or
   an error message and never both, and one notification. An OK response
   without a string answer ends on the connectivity error path, and so does
   a response that is not OK whose error field is a non-string the ||
   operator keeps (a number other than 0); an error field that is a
   non-string the || operator drops (the number 0) gets the generic
   application error instead. *)
C20_OneOutcomePerSettlement ==
    \A i \in 1..Len(calls) :
       /\ calls[i].pc = "fetch" => OneOutcome(fetchRejected(Page, i))
       /\ calls[i].pc = "json" =>
             \A body \in Bodies :
                \A r \in {jsonSettled(Page, i, body)} :
                   /\ OneOutcome(r)
                   /\ calls[i].ok /\ NoStringAnswer(body) => ConnectivityPath(r)
                   /\ ~calls[i].ok /\ NonStringError(body) =>
                         IF body.error.type = "number" /\ body.error.num = 0
                         THEN FallbackPath(r)
                         ELSE ConnectivityPath(r)

C20_Witness ==
    /\ calls = <<>>
    /\ ~isLoading
    /\ Len(chatMessages) = 2
    /\ IsUser(chatMessages[1])
    /\ chatMessages[2] = Message("message message-error", "", "Error", FALLBACK_ERROR_TEXT)
    /\ Len(toastContainer) = 1
    /\ toastContainer[1] = Toast(FALLBACK_ERROR_TOAST, "error")

====
